---- MODULE Spec2Model ----
(***************************************************************************)
(* Model of the bibliography patch engine of bin/enrich_bib.py and         *)
(* bin/fetch_thumbnails.py: the regex record scanner, the field merger,    *)
(* the per-record enrichment loops and the deferred patch applier.         *)
(* Text is a sequence of one-character strings; offsets are 0-based and    *)
(* spans half-open, as in Python.                                          *)
(***************************************************************************)
EXTENDS Integers, Sequences, FiniteSets, TLC

(***************************************************************************)
(* Characters and Python string primitives                                 *)
(***************************************************************************)
NL == "\n"
SP == " "

\* \w of the regexes, restricted to the characters the model's texts use
LowerLetters ==
    <<"a", "b", "c", "d", "e", "f", "g", "h", "i", "j", "k", "l", "m", "n",
      "o", "p", "q", "r", "s", "t", "u", "v", "w", "x", "y", "z">>

UpperLetters ==
    <<"A", "B", "C", "D", "E", "F", "G", "H", "I", "J", "K", "L", "M", "N",
      "O", "P", "Q", "R", "S", "T", "U", "V", "W", "X", "Y", "Z">>

Digits == {"0", "1", "2", "3", "4", "5", "6", "7", "8", "9"}

Range(f) == {f[i] : i \in DOMAIN f}

WordChars == Range(LowerLetters) \cup Range(UpperLetters) \cup Digits \cup {"_"}

\* \s of the regexes and the characters str.strip()/rstrip() remove
SpaceChars == {" ", "\n", "\t"}

IsWord(c) == c \in WordChars
IsSpace(c) == c \in SpaceChars

\* str.lower() on one character
LowerChar(c) ==
    IF c \in Range(UpperLetters)
    THEN LowerLetters[CHOOSE i \in 1..Len(UpperLetters) : UpperLetters[i] = c]
    ELSE c

Lower(s) == [i \in 1..Len(s) |-> LowerChar(s[i])]

\* s[a:b] for 0 <= a, b
Slice(s, a, b) == SubSeq(s, a + 1, b)

\* s[a:]
From(s, a) == SubSeq(s, a + 1, Len(s))

\* s.rstrip(): drop trailing whitespace
RECURSIVE RStrip(_)
RStrip(s) ==
    IF s # <<>> /\ IsSpace(s[Len(s)]) THEN RStrip(SubSeq(s, 1, Len(s) - 1)) ELSE s

\* s.lstrip()
RECURSIVE LStrip(_)
LStrip(s) ==
    IF s # <<>> /\ IsSpace(s[1]) THEN LStrip(Tail(s)) ELSE s

\* s.strip()
Strip(s) == LStrip(RStrip(s))

\* s.rstrip("\n")
RECURSIVE RStripNL(_)
RStripNL(s) ==
    IF s # <<>> /\ s[Len(s)] = NL THEN RStripNL(SubSeq(s, 1, Len(s) - 1)) ELSE s

\* s.endswith(",")
EndsWithComma(s) == s # <<>> /\ s[Len(s)] = ","

\* s.rfind("\n"): 0-based index of the last newline, -1 when there is none
RECURSIVE RFindNL(_)
RFindNL(s) ==
    IF s = <<>> THEN -1
    ELSE IF s[Len(s)] = NL THEN Len(s) - 1
    ELSE RFindNL(SubSeq(s, 1, Len(s) - 1))

\* s.rfind("\n}") searched downwards from 0-based index i
RECURSIVE RFindCloseFrom(_, _)
RFindCloseFrom(s, i) ==
    IF i < 0 THEN -1
    ELSE IF s[i + 1] = NL /\ s[i + 2] = "}" THEN i
    ELSE RFindCloseFrom(s, i - 1)

RFindClose(s) == RFindCloseFrom(s, Len(s) - 2)

\* "\n".join(lines)
RECURSIVE JoinNL(_)
JoinNL(lines) ==
    IF lines = <<>> THEN <<>>
    ELSE IF Len(lines) = 1 THEN lines[1]
    ELSE lines[1] \o <<NL>> \o JoinNL(Tail(lines))

(***************************************************************************)
(* Field Merger                                                            *)
(***************************************************************************)
\* the width of f"{name:<12}"
FieldWidth == 12

\* f"{name:<12}": left-aligned, padded with spaces, never truncated
PadName(name) ==
    IF Len(name) >= FieldWidth THEN name
    ELSE name \o [i \in 1..(FieldWidth - Len(name)) |-> SP]

\* f"  {name:<12}= {{{value}}},"
FieldLine(name, value) ==
    <<SP, SP>> \o PadName(name) \o <<"=", SP, "{">> \o value \o <<"}", ",">>

NeedsCommaUnstripped(last_line) ==
    Strip(last_line) # <<>> /\ ~EndsWithComma(last_line)

\* "if last_line.strip() and not last_line.rstrip().endswith(",")"
NeedsComma(last_line) ==
    Strip(last_line) # <<>> /\ ~EndsWithComma(RStrip(last_line))

\* enrich_bib.inject_fields; new_fields is the dict as a sequence of
\* <<name, value>> pairs in insertion order
inject_fields(raw, new_fields) ==
    LET lines == [i \in 1..Len(new_fields) |->
                    FieldLine(new_fields[i][1], new_fields[i][2])]
        insertion == JoinNL(lines) \o <<NL>>
        idx == RFindClose(raw)
        before == Slice(raw, 0, idx)
        last_line_end == RFindNL(before)
        last_line == From(before, last_line_end + 1)
        before2 ==
            IF NeedsComma(last_line)
            THEN RStripNL(Slice(before, 0, last_line_end + 1)
                          \o RStrip(last_line) \o <<",", NL>>)
            ELSE before
    IN  IF idx = -1 THEN raw
        ELSE before2 \o <<NL>> \o insertion \o From(raw, idx)

\* fetch_thumbnails.inject_field
inject_field(raw, name, value) ==
    LET line == FieldLine(name, value)
        idx == RFindClose(raw)
        before == Slice(raw, 0, idx)
        last_nl == RFindNL(before)
        last_line == From(before, last_nl + 1)
        before2 ==
            IF NeedsComma(last_line)
            THEN Slice(before, 0, last_nl + 1) \o RStrip(last_line) \o <<",">>
            ELSE before
    IN  IF idx = -1 THEN raw
        ELSE before2 \o <<NL>> \o line \o <<NL>> \o From(raw, idx)

(***************************************************************************)
(* Record Scanner                                                          *)
(***************************************************************************)
\* s[i] for a 0-based i, "" past either end
At(s, i) == IF i >= 0 /\ i < Len(s) THEN s[i + 1] ELSE ""

\* the end of the run of \w characters that starts at i
RECURSIVE WordEnd(_, _)
WordEnd(s, i) == IF IsWord(At(s, i)) THEN WordEnd(s, i + 1) ELSE i

\* the end of the run of \s characters that starts at i
RECURSIVE SpaceEnd(_, _)
SpaceEnd(s, i) == IF IsSpace(At(s, i)) THEN SpaceEnd(s, i + 1) ELSE i

\* the least member of a non-empty set of offsets
Least(S) == CHOOSE x \in S : \A y \in S : x <= y

\* [^@]*?\n\} from j: the offset of the first "\n}" that no "@" precedes,
\* -1 when an "@" or the end of the text comes first
FindClose(s, j) ==
    LET stops == {k \in j..(Len(s) - 1) :
                     \/ At(s, k) = "@"
                     \/ At(s, k) = NL /\ At(s, k + 1) = "}"}
    IN  IF stops = {} THEN -1
        ELSE IF At(s, Least(stops)) = "@" THEN -1
        ELSE Least(stops)

\* ENTRY_RE = @\w+\s*\{[^@]*?\n\} tried at offset i: the end offset of the
\* match, -1 when it does not match there
MatchEntryAt(s, i) ==
    LET w == WordEnd(s, i + 1)
        b == SpaceEnd(s, w)
        c == FindClose(s, b + 1)
    IN  IF At(s, i) = "@" /\ w > i + 1 /\ At(s, b) = "{" /\ c # -1
        THEN c + 2
        ELSE -1

\* ENTRY_RE.finditer(text): the spans <<start, end>> of the matches from i
\* on; a match starts at an "@", so the search goes from "@" to "@"
RECURSIVE EntrySpans(_, _)
EntrySpans(s, i) ==
    LET ats == {k \in i..(Len(s) - 1) : At(s, k) = "@"}
    IN  IF ats = {} THEN <<>>
        ELSE LET a == Least(ats)
                 e == MatchEntryAt(s, a)
             IN  IF e # -1 THEN <<(<<a, e>>)>> \o EntrySpans(s, e)
                 ELSE EntrySpans(s, a + 1)

\* the end of the run of \S characters that starts at i
RECURSIVE NonSpaceEnd(_, _)
NonSpaceEnd(s, i) ==
    IF At(s, i) # "" /\ ~IsSpace(At(s, i)) THEN NonSpaceEnd(s, i + 1) ELSE i

\* the first "," in s[a:b], -1 when there is none
RECURSIVE FindComma(_, _, _)
FindComma(s, a, b) ==
    IF a >= b THEN -1
    ELSE IF At(s, a) = "," THEN a
    ELSE FindComma(s, a + 1, b)

\* KEY_RE = @\w+\s*\{(\S+?), searched in raw, which holds one "@", its
\* first character: the key, or <<>> when KEY_RE.search(raw) is None
KeyMatch(raw) ==
    LET b == SpaceEnd(raw, WordEnd(raw, 1))
        k == b + 1
        c == FindComma(raw, k + 1, NonSpaceEnd(raw, k))
    IN  IF c = -1 THEN <<>> ELSE Slice(raw, k, c)

\* the first "}" at or after i, -1 when there is none
FindBrace(s, i) ==
    LET braces == {k \in i..(Len(s) - 1) : At(s, k) = "}"}
    IN  IF braces = {} THEN -1 ELSE Least(braces)

\* FIELD_RE = ^\s{2}(\w+)\s*=\s*\{([^}]*)\} (MULTILINE) tried at offset i:
\* <<name, value, end>>, or <<>> when it does not match there
MatchFieldAt(s, i) ==
    LET w == WordEnd(s, i + 2)
        q == SpaceEnd(s, w)
        o == SpaceEnd(s, q + 1)
        c == FindBrace(s, o + 1)
    IN  IF /\ (i = 0 \/ At(s, i - 1) = NL)
           /\ IsSpace(At(s, i)) /\ IsSpace(At(s, i + 1))
           /\ w > i + 2
           /\ At(s, q) = "="
           /\ At(s, o) = "{"
           /\ c # -1
        THEN <<Slice(s, i + 2, w), Slice(s, o + 1, c), c + 1>>
        ELSE <<>>

\* FIELD_RE.findall(raw) from offset i: the <<name, value>> pairs in order;
\* a match starts where a line starts, so the search goes from line to line
RECURSIVE FindFields(_, _)
FindFields(s, i) ==
    LET starts == {k \in i..(Len(s) - 1) : k = 0 \/ At(s, k - 1) = NL}
    IN  IF starts = {} THEN <<>>
        ELSE LET a == Least(starts)
                 m == MatchFieldAt(s, a)
             IN  IF m # <<>> THEN <<(<<m[1], m[2]>>)>> \o FindFields(s, m[3])
                 ELSE FindFields(s, a + 1)

\* {f.lower(): v.strip() for f, v in FIELD_RE.findall(raw)}: a later pair
\* of the same lower-cased name replaces an earlier one
FieldsOf(raw) ==
    LET found == FindFields(raw, 0)
        names == {Lower(found[i][1]) : i \in 1..Len(found)}
        last(n) == CHOOSE i \in 1..Len(found) :
                      /\ Lower(found[i][1]) = n
                      /\ \A j \in (i + 1)..Len(found) : Lower(found[j][1]) # n
    IN  [n \in names |-> Strip(found[last(n)][2])]

UnknownKey == <<"u", "n", "k", "n", "o", "w", "n">>

\* enrich_bib.parse_entries
parse_entries(text) ==
    LET spans == EntrySpans(text, 0)
    IN  [i \in 1..Len(spans) |->
           LET raw == Slice(text, spans[i][1], spans[i][2])
               key_m == KeyMatch(raw)
           IN  [key |-> IF key_m # <<>> THEN key_m ELSE UnknownKey,
                raw |-> raw,
                fields |-> FieldsOf(raw),
                span |-> spans[i]]]

\* fetch_thumbnails.parse_entries raises AttributeError at the first entry
\* in which KEY_RE finds no key (KEY_RE.search(raw) is None)
ParseRaises(text) ==
    LET spans == EntrySpans(text, 0)
    IN  \E i \in 1..Len(spans) :
           KeyMatch(Slice(text, spans[i][1], spans[i][2])) = <<>>

(***************************************************************************)
(* Names, resolver values and input texts                                  *)
(***************************************************************************)
\* None, "" and every other falsy str: the code tests these by truth only
None == <<>>

DOI == <<"d", "o", "i">>
HTML == <<"h", "t", "m", "l">>
ALTMETRIC == <<"a", "l", "t", "m", "e", "t", "r", "i", "c">>
PREVIEW == <<"p", "r", "e", "v", "i", "e", "w">>
JOURNAL == <<"j", "o", "u", "r", "n", "a", "l">>

\* what CrossRef can return for "DOI" and for "URL"; a URL may hold any
\* character, "@" included
CrossrefDois == {None, <<"1", "/", "9">>}
CrossrefUrls == {None, <<"u">>, <<"u", "@", "v">>}

\* what Altmetric can return for "altmetric_id"
AltmetricIds == {None, <<"7">>}

\* FALLBACK_LOGOS: key -> <<stem, suffix of the logo url>>
BIORXIV == <<"b", "i", "o", "r", "x", "i", "v">>
MEDRXIV == <<"m", "e", "d", "r", "x", "i", "v">>
SCIENCE == <<"s", "c", "i", "e", "n", "c", "e">>
PREFIX_SCIENCE == <<"1", "0", ".", "1", "1", "2", "6">>
PREFIX_BIORXIV == <<"1", "0", ".", "6", "4", "8", "9", "8">>
BIORXIV_LOGO == <<"b", "i", "o", "r", "x", "i", "v", "_", "l", "o", "g", "o">>
MEDRXIV_LOGO == <<"m", "e", "d", "r", "x", "i", "v", "_", "l", "o", "g", "o">>
SCIENCE_LOGO == <<"s", "c", "i", "e", "n", "c", "e", "_", "l", "o", "g", "o">>
PNG == <<".", "p", "n", "g">>
SVG == <<".", "s", "v", "g">>
JPG == <<".", "j", "p", "g">>

FALLBACK_LOGOS ==
    (BIORXIV :> <<BIORXIV_LOGO, PNG>>) @@ (MEDRXIV :> <<MEDRXIV_LOGO, PNG>>) @@
    (SCIENCE :> <<SCIENCE_LOGO, SVG>>) @@ (PREFIX_SCIENCE :> <<SCIENCE_LOGO, SVG>>) @@
    (PREFIX_BIORXIV :> <<BIORXIV_LOGO, PNG>>)

\* the records the input files are built from
\* every target field present
RecComplete ==
    <<"@", "a", "{", "k", "1", ",", "\n", " ", " ", "d", "o", "i", "=",
      "{", "1", "0", ".", "1", "1", "2", "6", "/", "1", "}", ",", "\n",
      " ", " ", "h", "t", "m", "l", "=", "{", "u", "}", ",", "\n", " ",
      " ", "a", "l", "t", "m", "e", "t", "r", "i", "c", "=", "{", "7", "}",
      ",", "\n", " ", " ", "p", "r", "e", "v", "i", "e", "w", "=", "{",
      "p", "}", ",", "\n", "}">>

\* no target field; the last line has no comma and ends with a space
RecBare ==
    <<"@", "a", "{", "k", "2", ",", "\n", " ", " ", "t", "i", "t", "l",
      "e", "=", "{", "t", "}", " ", "\n", "}">>

\* a Science DOI; altmetric and preview missing
RecScience ==
    <<"@", "a", "{", "k", "3", ",", "\n", " ", " ", "d", "o", "i", "=",
      "{", "1", "0", ".", "1", "1", "2", "6", "/", "1", "}", ",", "\n",
      " ", " ", "h", "t", "m", "l", "=", "{", "u", "}", "\n", "}">>

\* a preprint; a blank line precedes the closing marker
RecPreprint ==
    <<"@", "a", "{", "k", "4", ",", "\n", " ", " ", "h", "t", "m", "l",
      "=", "{", "u", "}", ",", "\n", " ", " ", "j", "o", "u", "r", "n",
      "a", "l", "=", "{", "b", "i", "o", "R", "x", "i", "v", "}", ",",
      "\n", "\n", "}">>

\* no journal, a DOI prefix of the logo table, an upper-case field name
RecGenericLogo ==
    <<"@", "a", "{", "k", "5", ",", "\n", " ", " ", "D", "O", "I", "=",
      "{", "1", "0", ".", "6", "4", "8", "9", "8", "/", "1", "}", ",",
      "\n", "}">>

\* no journal, no DOI; the last line ends with a comma and a space
RecGeneric ==
    <<"@", "a", "{", "k", "6", ",", "\n", " ", " ", "h", "t", "m", "l",
      "=", "{", "u", "}", ",", " ", "\n", "}">>

\* no key: KEY_RE finds nothing
RecNoKey ==
    <<"@", "a", "{", "\n", " ", " ", "d", "o", "i", "=", "{", "1", "/",
      "9", "}", "\n", "}">>

\* text before the first record
Header ==
    <<"%", " ", "r", "e", "f", "s", "\n">>

\* text between two records
Separator ==
    <<"\n", "\n">>

\* text after the last record
Trailer ==
    <<"\n">>

Templates ==
    <<RecComplete, RecBare, RecScience, RecPreprint, RecGenericLogo,
      RecGeneric, RecNoKey>>

\* the most records an input file holds
MaxRecords == 2

RECURSIVE JoinRecords(_)
JoinRecords(recs) ==
    IF recs = <<>> THEN <<>>
    ELSE IF Len(recs) = 1 THEN recs[1]
    ELSE recs[1] \o Separator \o JoinRecords(Tail(recs))

BufferOf(recs) == Header \o JoinRecords(recs) \o Trailer

\* the files of at most MaxRecords records drawn from the given templates
FilesOf(templates) ==
    {BufferOf([i \in 1..Len(pick) |-> templates[pick[i]]]) :
        pick \in UNION {[1..m -> 1..Len(templates)] : m \in 0..MaxRecords}}

InputFiles == FilesOf(Templates)

\* the records of the files that are processed twice
TwiceTemplates == <<RecBare, RecScience, RecPreprint, RecGeneric>>

TwiceFiles == FilesOf(TwiceTemplates)

(***************************************************************************)
(* State                                                                   *)
(***************************************************************************)
VARIABLES
    script,        \* "enrich" (enrich_bib.py) or "thumbs" (fetch_thumbnails.py)
    args,          \* the parsed command line: dry_run, no_altmetric, force
    exists,        \* bib_path.exists()
    file,          \* the content of the bib file on disk
    writes,        \* bib_path.write_text calls of the current run
    run,           \* 1 for the first run of main, 2 for the run on its output
    patch_counts,  \* len(replacements) at the end of each finished run
    pc,            \* the position of main
    text,          \* main's text: the file as read
    entries,       \* main's entries: parse_entries(text)
    idx,           \* the 1-based position of the loop over entries
    loc,           \* the loop body's locals for the current entry
    chain,         \* the lookups made for the current entry: <<name, result>>
    replacements,  \* main's replacements: [span, new_raw] in collection order
    new_text,      \* main's new_text
    undelayed,     \* the services called since the last time.sleep
    logos,         \* the logo stems present in PREVIEW_DIR
    raw_in,        \* merger: the span text given
    new_fields,    \* merger: the <<name, value>> pairs given
    merged         \* merger: the text returned, <<"pending">> before the call

vars ==
    <<script, args, exists, file, writes, run, patch_counts, pc, text, entries,
      idx, loc, chain, replacements, new_text, undelayed, logos, raw_in,
      new_fields, merged>>

mainVars ==
    <<script, args, exists, file, writes, run, patch_counts, pc, text, entries,
      idx, loc, chain, replacements, new_text, undelayed, logos>>

mergeVars == <<raw_in, new_fields, merged>>

\* dict.get(name) and dict.get(name, "")
Get(fields, name) == IF name \in DOMAIN fields THEN fields[name] ELSE None

NoLocals ==
    [need_doi |-> FALSE, need_html |-> FALSE, need_alt |-> FALSE,
     doi |-> None, html |-> None, journal |-> None, to_add |-> <<>>,
     cr_doi |-> None, cr_url |-> None, aid |-> None,
     filename |-> None, logo |-> <<>>, role |-> "", attempt |-> 0, img |-> FALSE]

entry == entries[idx]

\* the end of one pass of "for entry in entries" and the step to the next
NextEntry ==
    /\ idx' = idx + 1
    /\ pc' = IF idx + 1 > Len(entries) THEN "after_loop" ELSE "entry"

(***************************************************************************)
(* main: reading and scanning                                              *)
(***************************************************************************)
\* bib_path.exists() is false: sys.exit before any work
ExitNoFile ==
    /\ pc = "start"
    /\ ~exists
    /\ pc' = "exit_nofile"
    /\ UNCHANGED <<script, args, exists, file, writes, run, patch_counts, text,
                   entries, idx, loc, chain, replacements, new_text, undelayed,
                   logos>>
    /\ UNCHANGED mergeVars

\* text = bib_path.read_text(); entries = parse_entries(text)
ReadAndScan ==
    /\ pc = "start"
    /\ exists
    /\ text' = file
    /\ IF script = "thumbs" /\ ParseRaises(file)
       THEN /\ pc' = "crashed"
            /\ UNCHANGED <<entries, idx>>
       ELSE /\ entries' = parse_entries(file)
            /\ idx' = 1
            /\ pc' = IF parse_entries(file) = <<>> THEN "after_loop" ELSE "entry"
    /\ replacements' = <<>>
    /\ UNCHANGED <<script, args, exists, file, writes, run, patch_counts, loc,
                   chain, new_text, undelayed, logos>>
    /\ UNCHANGED mergeVars

(***************************************************************************)
(* enrich_bib.main: the loop body                                          *)
(***************************************************************************)
NeedDoi(fields) == DOI \notin DOMAIN fields

NeedHtmlAlways(fields) == TRUE

NeedHtml(fields) == HTML \notin DOMAIN fields

NeedAltIgnoringOption(fields, a) == ALTMETRIC \notin DOMAIN fields

\* need_alt
NeedAlt(fields, a) == ALTMETRIC \notin DOMAIN fields /\ ~a.no_altmetric

AltmetricDueWithoutDoi(need_alt, doi) == need_alt

\* "if need_alt and doi"
AltmetricDue(need_alt, doi) == need_alt /\ doi # None

\* from "for entry in entries" to the CrossRef or Altmetric branch
EnrichBegin ==
    /\ pc = "entry"
    /\ script = "enrich"
    /\ chain' = <<>>
    /\ LET fields == entry.fields
           need_doi == NeedDoi(fields)
           need_html == NeedHtml(fields)
           need_alt == NeedAlt(fields, args)
       IN  IF ~(need_doi \/ need_html \/ need_alt)
           THEN /\ loc' = NoLocals
                /\ NextEntry
           ELSE /\ loc' = [NoLocals EXCEPT !.need_doi = need_doi,
                                           !.need_html = need_html,
                                           !.need_alt = need_alt,
                                           !.doi = Get(fields, DOI),
                                           !.html = Get(fields, HTML)]
                /\ pc' = IF need_doi \/ need_html THEN "crossref"
                         ELSE IF AltmetricDue(need_alt, Get(fields, DOI))
                              THEN "altmetric"
                              ELSE "finish"
                /\ UNCHANGED idx
    /\ UNCHANGED <<script, args, exists, file, writes, run, patch_counts, text,
                   entries, replacements, new_text, undelayed, logos>>
    /\ UNCHANGED mergeVars

\* cr_doi, cr_url = crossref_lookup(title, first_author); an exception and an
\* empty item list both return (None, None)
CrossrefCall ==
    /\ pc = "crossref"
    /\ \E d \in CrossrefDois, u \in CrossrefUrls :
          /\ loc' = [loc EXCEPT !.cr_doi = d, !.cr_url = u]
          /\ chain' = Append(chain, <<"crossref", d>>)
    /\ undelayed' = undelayed \cup {"crossref"}
    /\ pc' = "crossref_sleep"
    /\ UNCHANGED <<script, args, exists, file, writes, run, patch_counts, text,
                   entries, idx, replacements, new_text, logos>>
    /\ UNCHANGED mergeVars

\* time.sleep(0.3) and the two "if cr_..." statements
CrossrefSleep ==
    /\ pc = "crossref_sleep"
    /\ undelayed' = {}
    /\ LET got_doi == loc.cr_doi # None /\ loc.need_doi
           got_url == loc.cr_url # None /\ loc.need_html
           doi == IF got_doi THEN loc.cr_doi ELSE loc.doi
           add1 == IF got_doi THEN Append(loc.to_add, <<DOI, loc.cr_doi>>)
                   ELSE loc.to_add
           add2 == IF got_url THEN Append(add1, <<HTML, loc.cr_url>>) ELSE add1
       IN  /\ loc' = [loc EXCEPT !.doi = doi,
                                 !.html = IF got_url THEN loc.cr_url ELSE loc.html,
                                 !.to_add = add2]
           /\ pc' = IF AltmetricDue(loc.need_alt, doi) THEN "altmetric"
                    ELSE "finish"
    /\ UNCHANGED <<script, args, exists, file, writes, run, patch_counts, text,
                   entries, idx, chain, replacements, new_text, logos>>
    /\ UNCHANGED mergeVars

\* aid = altmetric_lookup(doi, api_key); every error returns None
AltmetricCall ==
    /\ pc = "altmetric"
    /\ \E a \in AltmetricIds :
          /\ loc' = [loc EXCEPT !.aid = a]
          /\ chain' = Append(chain, <<"altmetric", a>>)
    /\ undelayed' = undelayed \cup {"altmetric"}
    /\ pc' = "altmetric_sleep"
    /\ UNCHANGED <<script, args, exists, file, writes, run, patch_counts, text,
                   entries, idx, replacements, new_text, logos>>
    /\ UNCHANGED mergeVars

\* time.sleep(0.5) and "if aid"
AltmetricSleep ==
    /\ pc = "altmetric_sleep"
    /\ undelayed' = {}
    /\ loc' = [loc EXCEPT !.to_add =
                  IF loc.aid # None THEN Append(@, <<ALTMETRIC, loc.aid>>) ELSE @]
    /\ pc' = "finish"
    /\ UNCHANGED <<script, args, exists, file, writes, run, patch_counts, text,
                   entries, idx, chain, replacements, new_text, logos>>
    /\ UNCHANGED mergeVars

HasPatchAlways(to_add) == TRUE

\* "if to_add"
HasPatch(to_add) == to_add # <<>>

\* "if to_add": the entry's replacement, and on to the next entry
EnrichFinish ==
    /\ pc = "finish"
    /\ script = "enrich"
    /\ replacements' =
          IF HasPatch(loc.to_add)
          THEN Append(replacements,
                      [span |-> entry.span,
                       new_raw |-> inject_fields(entry.raw, loc.to_add)])
          ELSE replacements
    /\ loc' = NoLocals
    /\ chain' = <<>>
    /\ NextEntry
    /\ UNCHANGED <<script, args, exists, file, writes, run, patch_counts, text,
                   entries, new_text, undelayed, logos>>
    /\ UNCHANGED mergeVars

(***************************************************************************)
(* fetch_thumbnails.main: the loop body                                    *)
(***************************************************************************)
\* s.startswith(prefix)
StartsWith(s, prefix) ==
    Len(s) >= Len(prefix) /\ SubSeq(s, 1, Len(prefix)) = prefix

\* the first "/" at or after i, -1 when there is none
RECURSIVE FindSlash(_, _)
FindSlash(s, i) ==
    IF i >= Len(s) THEN -1
    ELSE IF At(s, i) = "/" THEN i
    ELSE FindSlash(s, i + 1)

\* doi.split("/")[0] if "/" in doi else ""
DoiPrefix(doi) ==
    IF FindSlash(doi, 0) = -1 THEN <<>> ELSE Slice(doi, 0, FindSlash(doi, 0))

\* detect_fallback: <<stem, suffix>> of the logo, None for an unknown publisher
detect_fallback(journal, doi) ==
    IF Lower(journal) \in DOMAIN FALLBACK_LOGOS THEN FALLBACK_LOGOS[Lower(journal)]
    ELSE IF DoiPrefix(doi) \in DOMAIN FALLBACK_LOGOS
         THEN FALLBACK_LOGOS[DoiPrefix(doi)]
         ELSE None

\* sanitize: re.sub(r"[^a-zA-Z0-9_\-]", "_", key)
sanitize(key) ==
    [i \in 1..Len(key) |-> IF IsWord(key[i]) \/ key[i] = "-" THEN key[i] ELSE "_"]

\* the candidates of fetch_science times the header sets tried for each
ScienceAttempts == 4

\* "if not filename": the logo table is consulted only without a file name
NeedFallbackAlways(filename) == TRUE

NeedFallback(filename) == filename = None

\* the name get_or_download_logo returns for a logo
LogoName(logo) == logo[1] \o logo[2]

\* the name of the image saved for the entry
ImageName(key) == sanitize(key) \o JPG

\* time.sleep(0.8) at the end of the loop body
SleepAfterEntrySkipped(called) == called

SleepAfterEntry(called) == {}

\* from "for entry in entries" to the branch of the entry's publisher
ThumbsBegin ==
    /\ pc = "entry"
    /\ script = "thumbs"
    /\ chain' = <<>>
    /\ LET fields == entry.fields
           doi == Get(fields, DOI)
           html == Get(fields, HTML)
           journal == Get(fields, JOURNAL)
           fallback == detect_fallback(journal, doi)
           is_preprint == Lower(journal) \in {BIORXIV, MEDRXIV}
           is_science == Lower(journal) = SCIENCE \/ StartsWith(doi, PREFIX_SCIENCE)
           locals == [NoLocals EXCEPT !.doi = doi, !.html = html,
                                      !.journal = journal]
       IN  IF (~args.force /\ PREVIEW \in DOMAIN fields)
              \/ (doi = None /\ html = None)
           THEN /\ loc' = NoLocals
                /\ NextEntry
           ELSE /\ UNCHANGED idx
                /\ IF is_preprint /\ fallback # None
                   THEN /\ loc' = [locals EXCEPT !.logo = fallback,
                                                 !.role = "heuristic"]
                        /\ pc' = "logo"
                   ELSE /\ loc' = locals
                        /\ pc' = IF args.dry_run THEN "finish"
                                 ELSE IF is_science THEN "science_fetch"
                                 ELSE "generic_fetch"
    /\ UNCHANGED <<script, args, exists, file, writes, run, patch_counts, text,
                   entries, replacements, new_text, undelayed, logos>>
    /\ UNCHANGED mergeVars

\* get_or_download_logo: dest.exists()
LogoCached ==
    /\ pc = "logo"
    /\ loc.logo[1] \in logos
    /\ loc' = [loc EXCEPT !.filename = LogoName(loc.logo)]
    /\ chain' = Append(chain, <<loc.role, LogoName(loc.logo)>>)
    /\ pc' = "finish"
    /\ UNCHANGED <<script, args, exists, file, writes, run, patch_counts, text,
                   entries, idx, replacements, new_text, undelayed, logos>>
    /\ UNCHANGED mergeVars

\* get_or_download_logo: time.sleep(1.5) before the download
LogoSleep ==
    /\ pc = "logo"
    /\ loc.logo[1] \notin logos
    /\ undelayed' = {}
    /\ pc' = "logo_download"
    /\ UNCHANGED <<script, args, exists, file, writes, run, patch_counts, text,
                   entries, idx, loc, chain, replacements, new_text, logos>>
    /\ UNCHANGED mergeVars

\* get_or_download_logo under --dry-run: the name, nothing downloaded
LogoWouldDownload ==
    /\ pc = "logo_download"
    /\ args.dry_run
    /\ loc' = [loc EXCEPT !.filename = LogoName(loc.logo)]
    /\ chain' = Append(chain, <<loc.role, LogoName(loc.logo)>>)
    /\ pc' = "finish"
    /\ UNCHANGED <<script, args, exists, file, writes, run, patch_counts, text,
                   entries, idx, replacements, new_text, undelayed, logos>>
    /\ UNCHANGED mergeVars

\* get_or_download_logo: download_image(logo_url, dest), None when it fails
LogoDownload ==
    /\ pc = "logo_download"
    /\ ~args.dry_run
    /\ undelayed' = undelayed \cup {"wikimedia"}
    /\ \E saved \in BOOLEAN :
          LET filename == IF saved THEN LogoName(loc.logo) ELSE None
          IN  /\ loc' = [loc EXCEPT !.filename = filename]
              /\ chain' = Append(chain, <<loc.role, filename>>)
              /\ logos' = IF saved THEN logos \cup {loc.logo[1]} ELSE logos
    /\ pc' = "finish"
    /\ UNCHANGED <<script, args, exists, file, writes, run, patch_counts, text,
                   entries, idx, replacements, new_text>>
    /\ UNCHANGED mergeVars

\* fetch_science: one fetch_url of a candidate; an og:image returns at once,
\* a page without one and an exception go on to time.sleep(0.5)
ScienceFetch ==
    /\ pc = "science_fetch"
    /\ undelayed' = undelayed \cup {"page"}
    /\ \E img \in BOOLEAN :
          /\ loc' = [loc EXCEPT !.img = img]
          /\ pc' = IF img THEN "science_download" ELSE "science_sleep"
    /\ UNCHANGED <<script, args, exists, file, writes, run, patch_counts, text,
                   entries, idx, chain, replacements, new_text, logos>>
    /\ UNCHANGED mergeVars

\* fetch_science: time.sleep(0.5), then the next attempt; after the last one
\* fetch_science returns None and main turns to the Science logo
ScienceSleep ==
    /\ pc = "science_sleep"
    /\ undelayed' = {}
    /\ IF loc.attempt + 1 < ScienceAttempts
       THEN /\ loc' = [loc EXCEPT !.attempt = @ + 1]
            /\ pc' = "science_fetch"
            /\ UNCHANGED chain
       ELSE /\ loc' = [loc EXCEPT !.logo = FALLBACK_LOGOS[SCIENCE],
                                  !.role = "logo"]
            /\ chain' = Append(chain, <<"heuristic", None>>)
            /\ pc' = "logo"
    /\ UNCHANGED <<script, args, exists, file, writes, run, patch_counts, text,
                   entries, idx, replacements, new_text, logos>>
    /\ UNCHANGED mergeVars

\* main, Science branch: download_image(img_url, dest); without a saved file
\* the Science logo is used
ScienceDownload ==
    /\ pc = "science_download"
    /\ undelayed' = undelayed \cup {"image"}
    /\ \E saved \in BOOLEAN :
          LET filename == IF saved THEN ImageName(entry.key) ELSE None
          IN  /\ chain' = Append(chain, <<"heuristic", filename>>)
              /\ IF NeedFallback(filename)
                 THEN /\ loc' = [loc EXCEPT !.filename = filename,
                                            !.logo = FALLBACK_LOGOS[SCIENCE],
                                            !.role = "logo"]
                      /\ pc' = "logo"
                 ELSE /\ loc' = [loc EXCEPT !.filename = filename]
                      /\ pc' = "finish"
    /\ UNCHANGED <<script, args, exists, file, writes, run, patch_counts, text,
                   entries, idx, replacements, new_text, logos>>
    /\ UNCHANGED mergeVars

\* main, generic branch: fetch_url(start_url); an exception leaves the try
\* block before its time.sleep(0.5)
GenericFetch ==
    /\ pc = "generic_fetch"
    /\ undelayed' = undelayed \cup {"page"}
    /\ \E outcome \in {"img", "no_img", "raised"} :
          IF outcome = "raised"
          THEN /\ chain' = Append(chain, <<"scrape", None>>)
               /\ pc' = "generic_fallback"
               /\ UNCHANGED loc
          ELSE /\ loc' = [loc EXCEPT !.img = (outcome = "img")]
               /\ pc' = "generic_sleep"
               /\ UNCHANGED chain
    /\ UNCHANGED <<script, args, exists, file, writes, run, patch_counts, text,
                   entries, idx, replacements, new_text, logos>>
    /\ UNCHANGED mergeVars

\* main, generic branch: time.sleep(0.5) and "if img_url"
GenericSleep ==
    /\ pc = "generic_sleep"
    /\ undelayed' = {}
    /\ IF loc.img
       THEN /\ pc' = "generic_download"
            /\ UNCHANGED chain
       ELSE /\ chain' = Append(chain, <<"scrape", None>>)
            /\ pc' = "generic_fallback"
    /\ UNCHANGED <<script, args, exists, file, writes, run, patch_counts, text,
                   entries, idx, loc, replacements, new_text, logos>>
    /\ UNCHANGED mergeVars

\* main, generic branch: download_image(img_url, dest)
GenericDownload ==
    /\ pc = "generic_download"
    /\ undelayed' = undelayed \cup {"image"}
    /\ \E saved \in BOOLEAN :
          LET filename == IF saved THEN ImageName(entry.key) ELSE None
          IN  /\ loc' = [loc EXCEPT !.filename = filename]
              /\ chain' = Append(chain, <<"scrape", filename>>)
              /\ pc' = IF NeedFallback(filename) THEN "generic_fallback"
                       ELSE "finish"
    /\ UNCHANGED <<script, args, exists, file, writes, run, patch_counts, text,
                   entries, idx, replacements, new_text, logos>>
    /\ UNCHANGED mergeVars

\* main, generic branch: "fallback to logo on any failure"
GenericFallback ==
    /\ pc = "generic_fallback"
    /\ LET fb == detect_fallback(loc.journal, loc.doi)
       IN  IF fb # None
           THEN /\ loc' = [loc EXCEPT !.logo = fb, !.role = "logo"]
                /\ pc' = "logo"
                /\ UNCHANGED chain
           ELSE /\ chain' = Append(chain, <<"logo", None>>)
                /\ pc' = "finish"
                /\ UNCHANGED loc
    /\ UNCHANGED <<script, args, exists, file, writes, run, patch_counts, text,
                   entries, idx, replacements, new_text, undelayed, logos>>
    /\ UNCHANGED mergeVars

\* "if filename": the entry's replacement; time.sleep(0.8); the next entry
ThumbsFinish ==
    /\ pc = "finish"
    /\ script = "thumbs"
    /\ replacements' =
          IF loc.filename # None
          THEN Append(replacements,
                      [span |-> entry.span,
                       new_raw |-> inject_field(entry.raw, PREVIEW, loc.filename)])
          ELSE replacements
    /\ undelayed' = SleepAfterEntry(undelayed)
    /\ loc' = NoLocals
    /\ chain' = <<>>
    /\ NextEntry
    /\ UNCHANGED <<script, args, exists, file, writes, run, patch_counts, text,
                   entries, new_text, logos>>
    /\ UNCHANGED mergeVars

(***************************************************************************)
(* main: the patch applier and the single write                            *)
(***************************************************************************)
\* the replacement with the largest start offset, the first of them in
\* collection order
MaxStart(reps) ==
    CHOOSE i \in 1..Len(reps) :
        /\ \A j \in 1..Len(reps) : reps[j].span[1] <= reps[i].span[1]
        /\ \A j \in 1..(i - 1) : reps[j].span[1] < reps[i].span[1]

Without(reps, i) == SubSeq(reps, 1, i - 1) \o SubSeq(reps, i + 1, Len(reps))

RECURSIVE SortDescending(_)
SortDescending(reps) ==
    IF reps = <<>> THEN <<>>
    ELSE <<reps[MaxStart(reps)]>> \o SortDescending(Without(reps, MaxStart(reps)))

CollectionOrder(reps) == reps

\* sorted(replacements, key=lambda x: -x[0][0])
ApplyOrder(reps) == SortDescending(reps)

\* new_text = new_text[:start] + new_raw + new_text[end:], once for each
\* replacement in the order given
RECURSIVE Splice(_, _)
Splice(buffer, ordered) ==
    IF ordered = <<>> THEN buffer
    ELSE Splice(Slice(buffer, 0, ordered[1].span[1]) \o ordered[1].new_raw
                  \o From(buffer, ordered[1].span[2]),
                Tail(ordered))

\* "if not replacements": nothing to update, main returns
NothingToUpdate ==
    /\ pc = "after_loop"
    /\ replacements = <<>>
    /\ pc' = "done"
    /\ patch_counts' = Append(patch_counts, 0)
    /\ UNCHANGED <<script, args, exists, file, writes, run, text, entries, idx,
                   loc, chain, replacements, new_text, undelayed, logos>>
    /\ UNCHANGED mergeVars

\* the replacements applied to new_text in descending start order
ApplyPatches ==
    /\ pc = "after_loop"
    /\ replacements # <<>>
    /\ new_text' = Splice(text, ApplyOrder(replacements))
    /\ pc' = "applied"
    /\ UNCHANGED <<script, args, exists, file, writes, run, patch_counts, text,
                   entries, idx, loc, chain, replacements, undelayed, logos>>
    /\ UNCHANGED mergeVars

WritesAlways(a) == TRUE

\* "if args.dry_run: ... else: bib_path.write_text(new_text)"
Writes(a) == ~a.dry_run

\* --dry-run: the new text is printed or only announced, the file is kept
Preview ==
    /\ pc = "applied"
    /\ ~Writes(args)
    /\ pc' = "done"
    /\ patch_counts' = Append(patch_counts, Len(replacements))
    /\ UNCHANGED <<script, args, exists, file, writes, run, text, entries, idx,
                   loc, chain, replacements, new_text, undelayed, logos>>
    /\ UNCHANGED mergeVars

\* bib_path.write_text(new_text)
WriteFile ==
    /\ pc = "applied"
    /\ Writes(args)
    /\ file' = new_text
    /\ writes' = writes + 1
    /\ pc' = "done"
    /\ patch_counts' = Append(patch_counts, Len(replacements))
    /\ UNCHANGED <<script, args, exists, run, text, entries, idx, loc, chain,
                   replacements, new_text, undelayed, logos>>
    /\ UNCHANGED mergeVars

\* the same command run again on the first run's output: the file the first
\* run wrote, or left as it was when it had nothing to update
Rerun ==
    /\ pc = "done"
    /\ run = 1
    /\ ~args.dry_run
    /\ run' = 2
    /\ pc' = "start"
    /\ writes' = 0
    /\ text' = <<>>
    /\ entries' = <<>>
    /\ idx' = 0
    /\ replacements' = <<>>
    /\ new_text' = <<>>
    /\ undelayed' = {}
    /\ UNCHANGED <<script, args, exists, file, patch_counts, loc, chain, logos>>
    /\ UNCHANGED mergeVars

(***************************************************************************)
(* The merger called on its own                                            *)
(***************************************************************************)
\* no closing marker: no "\n}" in the span
RawNoClose ==
    <<"@", "a", "{", "k", ",", "\n", " ", " ", "d", "o", "i", "=", "{",
      "1", "}", "}">>

\* nothing but the opening line before the closing marker
RawOneLine ==
    <<"@", "a", "{", "k", "\n", "}">>

\* the line before the closing marker holds spaces only
RawSpaces ==
    <<"@", "a", "{", "k", ",", "\n", " ", " ", "t", "=", "{", "x", "}",
      ",", "\n", " ", " ", "\n", "}">>

\* no comma, and a tab and a space end the last line
RawTab ==
    <<"@", "a", "{", "k", ",", "\n", " ", " ", "t", "=", "{", "x", "}",
      "	", " ", "\n", "}">>

MergeInputs ==
    {RecBare, RecScience, RecPreprint, RecGenericLogo, RecGeneric, RecNoKey,
     RawNoClose, RawOneLine, RawSpaces, RawTab}

\* the value merged for each field name
ValueOf(name) ==
    CASE name = DOI -> <<"1", "/", "9">>
      [] name = HTML -> <<"u">>
      [] name = ALTMETRIC -> <<"7">>
      [] OTHER -> <<"k", ".", "j", "p", "g">>

\* the most fields one merger call is given
MaxNewFields == 3

\* the dicts given to the merger: distinct names in any insertion order
NewFieldDicts ==
    {[i \in DOMAIN order |-> <<order[i], ValueOf(order[i])>>] :
        order \in {o \in UNION {[1..m -> {DOI, HTML, ALTMETRIC, PREVIEW}] :
                                   m \in 1..MaxNewFields} :
                      \A i, j \in DOMAIN o : i # j => o[i] # o[j]}}

NotMerged == [done |-> FALSE, by |-> "", out |-> <<>>]

\* inject_fields(raw, new_fields)
CallInjectFields ==
    /\ ~merged.done
    /\ pc = "idle"
    /\ merged' = [done |-> TRUE, by |-> "inject_fields",
                  out |-> inject_fields(raw_in, new_fields)]
    /\ UNCHANGED <<raw_in, new_fields>>
    /\ UNCHANGED mainVars

\* inject_field(raw, name, value)
CallInjectField ==
    /\ ~merged.done
    /\ pc = "idle"
    /\ Len(new_fields) = 1
    /\ merged' = [done |-> TRUE, by |-> "inject_field",
                  out |-> inject_field(raw_in, new_fields[1][1], new_fields[1][2])]
    /\ UNCHANGED <<raw_in, new_fields>>
    /\ UNCHANGED mainVars

(***************************************************************************)
(* Specifications                                                          *)
(***************************************************************************)
ArgsOf(s) ==
    IF s = "enrich"
    THEN {[dry_run |-> d, no_altmetric |-> n, force |-> FALSE] : d, n \in BOOLEAN}
    ELSE {[dry_run |-> d, no_altmetric |-> FALSE, force |-> f] : d, f \in BOOLEAN}

MainStart ==
    /\ writes = 0
    /\ run = 1
    /\ patch_counts = <<>>
    /\ pc = "start"
    /\ text = <<>>
    /\ entries = <<>>
    /\ idx = 0
    /\ loc = NoLocals
    /\ chain = <<>>
    /\ replacements = <<>>
    /\ new_text = <<>>
    /\ undelayed = {}
    /\ logos = {}

\* one run of either script on an input file, or on a path that is no file
Init ==
    /\ script \in {"enrich", "thumbs"}
    /\ args \in ArgsOf(script)
    /\ \/ exists = TRUE /\ file \in InputFiles
       \/ exists = FALSE /\ file = <<>>
    /\ MainStart
    /\ raw_in = <<>>
    /\ new_fields = <<>>
    /\ merged = NotMerged

InitTwice ==
    /\ script \in {"enrich", "thumbs"}
    /\ args \in ArgsOf(script)
    /\ \/ exists = TRUE /\ file \in TwiceFiles
       \/ exists = FALSE /\ file = <<>>
    /\ MainStart
    /\ raw_in = <<>>
    /\ new_fields = <<>>
    /\ merged = NotMerged

Next ==
    \/ ExitNoFile
    \/ ReadAndScan
    \/ EnrichBegin
    \/ CrossrefCall
    \/ CrossrefSleep
    \/ AltmetricCall
    \/ AltmetricSleep
    \/ EnrichFinish
    \/ ThumbsBegin
    \/ LogoCached
    \/ LogoSleep
    \/ LogoWouldDownload
    \/ LogoDownload
    \/ ScienceFetch
    \/ ScienceSleep
    \/ ScienceDownload
    \/ GenericFetch
    \/ GenericSleep
    \/ GenericDownload
    \/ GenericFallback
    \/ ThumbsFinish
    \/ NothingToUpdate
    \/ ApplyPatches
    \/ Preview
    \/ WriteFile

Spec == Init /\ [][Next]_vars

\* the script run twice, the second run on the file the first one left
NextTwice == Next \/ Rerun

SpecTwice == InitTwice /\ [][NextTwice]_vars

\* the merger on its own, on a span and a dict of new fields
InitMerge ==
    /\ script = "enrich"
    /\ args = [dry_run |-> FALSE, no_altmetric |-> FALSE, force |-> FALSE]
    /\ exists = FALSE
    /\ file = <<>>
    /\ writes = 0
    /\ run = 1
    /\ patch_counts = <<>>
    /\ pc = "idle"
    /\ text = <<>>
    /\ entries = <<>>
    /\ idx = 0
    /\ loc = NoLocals
    /\ chain = <<>>
    /\ replacements = <<>>
    /\ new_text = <<>>
    /\ undelayed = {}
    /\ logos = {}
    /\ raw_in \in MergeInputs
    /\ new_fields \in NewFieldDicts
    /\ merged = NotMerged

NextMerge == CallInjectFields \/ CallInjectField

SpecMerge == InitMerge /\ [][NextMerge]_vars

(***************************************************************************)
(* Properties                                                              *)
(***************************************************************************)
AfterLoop == pc \in {"after_loop", "applied", "done"}

\* s.split("\n")
RECURSIVE LinesOf(_)
LinesOf(s) ==
    LET nls == {k \in 0..(Len(s) - 1) : At(s, k) = NL}
    IN  IF nls = {} THEN <<s>>
        ELSE <<Slice(s, 0, Least(nls))>> \o LinesOf(From(s, Least(nls) + 1))

IsPrefix(p, s) == Len(p) <= Len(s) /\ SubSeq(s, 1, Len(p)) = p

IsSuffix(p, s) == Len(p) <= Len(s) /\ SubSeq(s, Len(s) - Len(p) + 1, Len(s)) = p

HasContent(line) == \E k \in 1..Len(line) : ~IsSpace(line[k])

\* the last character of the line that is not whitespace is a comma
ContentEndsWithComma(line) ==
    \E k \in 1..Len(line) :
        line[k] = "," /\ \A j \in (k + 1)..Len(line) : IsSpace(line[j])

\* the 1-based number of the closing marker line of a span: the last line
\* that starts with "}", 0 when the span has no closing marker
CloseLine(raw) ==
    LET ls == LinesOf(raw)
        closers == {c \in 2..Len(ls) : At(ls[c], 0) = "}"}
    IN  IF closers = {} THEN 0
        ELSE CHOOSE c \in closers : \A d \in closers : d <= c

\* a field line as the spec describes it: two spaces, the name in a column
\* of twelve, "= {", the value, "},"
IsFieldLine(line, name, value) ==
    LET w == IF Len(name) > 12 THEN Len(name) ELSE 12
    IN  /\ Len(line) = 2 + w + 3 + Len(value) + 2
        /\ line[1] = SP /\ line[2] = SP
        /\ SubSeq(line, 3, 2 + Len(name)) = name
        /\ \A k \in (3 + Len(name))..(2 + w) : line[k] = SP
        /\ SubSeq(line, 3 + w, 5 + w) = <<"=", SP, "{">>
        /\ SubSeq(line, 6 + w, 5 + w + Len(value)) = value
        /\ SubSeq(line, 6 + w + Len(value), Len(line)) = <<"}", ",">>

Merged == merged.done /\ CloseLine(raw_in) # 0

\* C3: a merge on a span with a closing marker only inserts: the text up to
\* the closing marker is kept verbatim at the start of the output (trailing
\* whitespace of the last field line included), the closing marker and what
\* follows it are kept at the end, and what is added lies between them.
C3_OnlyInsertions ==
    Merged =>
        /\ IsPrefix(Slice(raw_in, 0, RFindClose(raw_in)), merged.out)
        /\ IsSuffix(From(raw_in, RFindClose(raw_in)), merged.out)

\* C7: separator repair. When the line before the closing marker has content
\* whose last non-blank character is not a comma, that line ends with a comma
\* after the merge; when it is blank or its content already ends with a comma
\* it is left as it was. In both cases the lines above it are unchanged and
\* the new fields follow it.
C7_SeparatorRepair ==
    Merged =>
        LET inL == LinesOf(raw_in)
            outL == LinesOf(merged.out)
            c == CloseLine(raw_in)
            last == inL[c - 1]
        IN  /\ \A i \in 1..(c - 2) : outL[i] = inL[i]
            /\ IF HasContent(last) /\ ~ContentEndsWithComma(last)
               THEN /\ EndsWithComma(outL[c - 1])
                    /\ outL[c - 1] = RStrip(last) \o <<",">>
               ELSE outL[c - 1] = last
            /\ \A i \in 1..Len(new_fields) :
                  IsFieldLine(outL[c - 1 + i], new_fields[i][1], new_fields[i][2])

C7_Witness ==
    /\ Merged
    /\ HasContent(LinesOf(raw_in)[CloseLine(raw_in) - 1])
    /\ ~ContentEndsWithComma(LinesOf(raw_in)[CloseLine(raw_in) - 1])
    /\ EndsWithComma(LinesOf(merged.out)[CloseLine(raw_in) - 1])

\* C8: placement and order. The new fields are inserted immediately before
\* the closing marker: after the last original content line come the new field
\* lines, one field per line in the insertion order of new_fields with the
\* name in a column of twelve, and the line after the last of them is the
\* closing marker line; nothing else is added.
C8_Placement ==
    Merged =>
        LET inL == LinesOf(raw_in)
            outL == LinesOf(merged.out)
            c == CloseLine(raw_in)
            n == Len(new_fields)
        IN  /\ Len(outL) = Len(inL) + n
            /\ \A i \in 1..n :
                  IsFieldLine(outL[c - 1 + i], new_fields[i][1], new_fields[i][2])
            /\ \A i \in c..Len(inL) : outL[i + n] = inL[i]

\* the number of "@" in a text
AtCount(s) == Cardinality({k \in 1..Len(s) : s[k] = "@"})

\* the replacement collected for the entry, 0 when it has none
PatchOf(i) ==
    IF \E r \in 1..Len(replacements) : replacements[r].span = entries[i].span
    THEN CHOOSE r \in 1..Len(replacements) : replacements[r].span = entries[i].span
    ELSE 0

\* the text the claim describes: the input with every patched span replaced
\* by its new text and everything else copied, from entry i on
RECURSIVE Patched(_)
Patched(i) ==
    IF i > Len(entries)
    THEN From(text, IF entries = <<>> THEN 0 ELSE entries[Len(entries)].span[2])
    ELSE Slice(text, IF i = 1 THEN 0 ELSE entries[i - 1].span[2],
               entries[i].span[1])
         \o (IF PatchOf(i) = 0 THEN entries[i].raw
             ELSE replacements[PatchOf(i)].new_raw)
         \o Patched(i + 1)

\* no inserted value holds an "@": each new text has the one "@" of its record
NoAtInserted == \A r \in 1..Len(replacements) : AtCount(replacements[r].new_raw) = 1

\* C1 as claimed: after the patches are applied, every unpatched record and
\* all the text outside the patched spans is unchanged (the new text is the
\* input with exactly the patched spans replaced), and a re-scan of the new
\* text finds as many records as the scan of the input, whatever was inserted.
C1_NonInterference ==
    pc = "applied" =>
        /\ new_text = Patched(1)
        /\ Len(EntrySpans(new_text, 0)) = Len(entries)

\* C1 amended: the same, for patches whose inserted values hold no "@".
C1_NonInterferenceNoAt ==
    (pc = "applied" /\ NoAtInserted) =>
        /\ new_text = Patched(1)
        /\ Len(EntrySpans(new_text, 0)) = Len(entries)

C1_Witness ==
    /\ pc = "applied"
    /\ NoAtInserted
    /\ Len(entries) = 2
    /\ PatchOf(1) # 0
    /\ PatchOf(2) = 0
    /\ Len(new_text) > Len(text)

\* the target fields of the running script
Targets ==
    IF script = "thumbs" THEN {PREVIEW}
    ELSE IF args.no_altmetric THEN {DOI, HTML}
    ELSE {DOI, HTML, ALTMETRIC}

\* every scanned record holds every target field
FullyEnriched == \A i \in 1..Len(entries) : Targets \subseteq DOMAIN entries[i].fields

\* C2 as claimed: the second run, on the first run's output, collects no
\* patch, whatever the resolvers return.
C2_SecondRunNoPatches == (run = 2 /\ AfterLoop) => replacements = <<>>

\* C2 amended: with the force option off, the second run collects no patch
\* whenever every record scanned from the first run's output holds every
\* target field.
C2_SecondRunNoPatchesWhenEnriched ==
    (run = 2 /\ AfterLoop /\ ~args.force /\ FullyEnriched) => replacements = <<>>

C2_Witness ==
    /\ run = 2
    /\ pc = "done"
    /\ ~args.force
    /\ entries # <<>>
    /\ FullyEnriched
    /\ patch_counts[1] > 0
    /\ patch_counts[2] = 0

\* C4: no record aborts the run: the only failure of the process is the
\* missing input file, found before any work begins.
C4_NoAbort ==
    /\ pc # "crashed"
    /\ pc = "exit_nofile" => (~exists /\ text = <<>> /\ entries = <<>>)

InLoop ==
    pc \in {"entry", "crossref", "crossref_sleep", "altmetric", "altmetric_sleep",
            "finish", "logo", "logo_download", "science_fetch", "science_sleep",
            "science_download", "generic_fetch", "generic_sleep",
            "generic_download", "generic_fallback"}

\* C5: the bib file is written at most once in a run, and only after the loop
\* over the records has ended; it is not written under --dry-run or without a
\* patch; until the write the file is what was read.
C5_DeferredWrite ==
    /\ writes <= 1
    /\ (InLoop \/ pc \in {"after_loop", "applied"}) => (writes = 0 /\ file = text)
    /\ writes = 1 =>
          /\ pc = "done"
          /\ idx > Len(entries)
          /\ ~args.dry_run
          /\ replacements # <<>>
          /\ file = new_text
    /\ (pc = "done" /\ (args.dry_run \/ replacements = <<>>)) =>
          (writes = 0 /\ file = text)

C5_Witness ==
    /\ writes = 1
    /\ Len(entries) = 2
    /\ Len(replacements) = 2
    /\ file # text

\* the place of a resolver in the fixed order
Rank(name) ==
    CASE name = "heuristic" -> 1
      [] name = "scrape" -> 2
      [] name = "logo" -> 3
      [] OTHER -> 0

ChainEnded == script = "thumbs" /\ pc = "finish" /\ chain # <<>>

\* C6 as claimed: the resolver invoked after one that returned not-found is
\* the next in the fixed order, a resolver that returned not-found is followed
\* by the next one while there is one, the chain stops at the first value,
\* and the result is that value.
C6_FallbackExactly ==
    ChainEnded =>
        /\ \A i \in 1..(Len(chain) - 1) :
              /\ chain[i][2] = None
              /\ Rank(chain[i + 1][1]) = Rank(chain[i][1]) + 1
        /\ chain[Len(chain)][2] = None => Rank(chain[Len(chain)][1]) = 3
        /\ loc.filename = chain[Len(chain)][2]

\* C6 amended: the resolvers invoked for a record are in the fixed order, a
\* later one is invoked only after every earlier one returned not-found, the
\* chain stops at the first value and the result is that value; the generic
\* scrape is never tried after a source-specific heuristic.
C6_FallbackOnlyAfterNotFound ==
    script = "thumbs" =>
        /\ \A i, j \in 1..Len(chain) : i < j => Rank(chain[i][1]) < Rank(chain[j][1])
        /\ \A i \in 1..(Len(chain) - 1) : chain[i][2] = None
        /\ ~(\E i, j \in 1..Len(chain) :
                chain[i][1] = "heuristic" /\ chain[j][1] = "scrape")
        /\ ChainEnded => loc.filename = chain[Len(chain)][2]
        /\ (pc = "finish" /\ chain = <<>>) => loc.filename = None

C6_Witness ==
    /\ ChainEnded
    /\ Len(chain) = 2
    /\ chain[1] = <<"heuristic", None>>
    /\ chain[2][1] = "logo"
    /\ chain[2][2] # None
    /\ loc.filename = chain[2][2]

\* a DOI is available for the current entry: present at scan time, or found
\* by CrossRef earlier in the run
DoiAvailable ==
    \/ Get(entry.fields, DOI) # None
    \/ \E j \in 1..Len(chain) : chain[j][1] = "crossref" /\ chain[j][2] # None

EnrichingEntry == script = "enrich" /\ InLoop /\ pc # "entry"

\* C9: Altmetric is looked up only when a DOI is available, the entry's
\* CrossRef lookup comes before its Altmetric lookup, and without a DOI
\* nothing is looked up at Altmetric and no altmetric field is added.
C9_AltmetricNeedsDoi ==
    EnrichingEntry =>
        /\ pc = "altmetric" => DoiAvailable
        /\ \A i \in 1..Len(chain) :
              chain[i][1] = "altmetric" =>
                 /\ DoiAvailable
                 /\ \A j \in 1..Len(chain) : chain[j][1] = "crossref" => j < i
        /\ (pc = "finish" /\ ~DoiAvailable) =>
              /\ \A i \in 1..Len(chain) : chain[i][1] # "altmetric"
              /\ \A k \in 1..Len(loc.to_add) : loc.to_add[k][1] # ALTMETRIC

C9_Witness ==
    /\ script = "enrich"
    /\ pc = "altmetric_sleep"
    /\ Get(entry.fields, DOI) = None
    /\ Len(chain) = 2
    /\ chain[1][1] = "crossref"
    /\ chain[1][2] # None
    /\ chain[2][1] = "altmetric"

\* C10: wherever main is about to call an external service, a time.sleep has
\* passed since the last call to that service, whether that call returned a
\* value, returned nothing or raised.
C10_PolitenessDelay ==
    /\ pc = "crossref" => "crossref" \notin undelayed
    /\ pc = "altmetric" => "altmetric" \notin undelayed
    /\ pc \in {"science_fetch", "generic_fetch"} => "page" \notin undelayed
    /\ pc \in {"science_download", "generic_download"} => "image" \notin undelayed
    /\ (pc = "logo_download" /\ ~args.dry_run) => "wikimedia" \notin undelayed

C10_Witness ==
    /\ pc = "generic_fetch"
    /\ idx = 2
    /\ replacements = <<>>
    /\ Get(entries[1].fields, JOURNAL) = None
    /\ Get(entries[1].fields, PREVIEW) = None
    /\ Get(entries[1].fields, HTML) # None
    /\ undelayed = {}

\* main has read and scanned the file
Scanned == InLoop \/ pc \in {"after_loop", "applied", "done"}

\* the positions of main at which a resolver is being called or has just
\* been called
ResolverPoints ==
    {"crossref", "crossref_sleep", "altmetric", "altmetric_sleep", "logo",
     "logo_download", "science_fetch", "science_sleep", "science_download",
     "generic_fetch", "generic_sleep", "generic_download", "generic_fallback"}

\* C11: in a run without the force option on a file in which every scanned
\* record holds every target field, no resolver is called, no patch is
\* collected, nothing is spliced or written, and the file stays what was read.
C11_NoOpRoundTrip ==
    (Scanned /\ ~args.force /\ FullyEnriched) =>
        /\ pc \notin ResolverPoints
        /\ pc \notin {"finish", "applied"}
        /\ chain = <<>>
        /\ undelayed = {}
        /\ replacements = <<>>
        /\ writes = 0
        /\ file = text
        /\ pc = "done" => patch_counts = <<0>>

C11_Witness ==
    /\ pc = "done"
    /\ ~args.force
    /\ Len(entries) = 2
    /\ FullyEnriched
    /\ entries[1].raw # entries[2].raw
    /\ patch_counts = <<0>>
    /\ file = text

\* the field names of the current entry's pending patch: the keys of to_add
\* in enrich_bib, preview once a filename is found in fetch_thumbnails
PendingNames ==
    IF script = "enrich"
    THEN {loc.to_add[k][1] : k \in 1..Len(loc.to_add)}
    ELSE IF loc.filename # None THEN {PREVIEW} ELSE {}

\* every lookup made for the current entry returned nothing
LookupsAllFailed ==
    IF script = "enrich"
    THEN loc.cr_doi = None /\ loc.cr_url = None /\ loc.aid = None
    ELSE \A i \in 1..Len(chain) : chain[i][2] = None

\* the value the pending patch gives a name
PendingValue(name) ==
    IF script = "enrich"
    THEN loc.to_add[CHOOSE k \in 1..Len(loc.to_add) : loc.to_add[k][1] = name][2]
    ELSE loc.filename

\* the fields of the current entry with the pending patch added
FieldsWithPatch ==
    [n \in DOMAIN entry.fields \cup PendingNames |->
        IF n \in DOMAIN entry.fields THEN entry.fields[n] ELSE PendingValue(n)]

\* a step that adds to replacements adds one patch, of the current entry, at
\* the end of its pass; without the force option the patch is not empty, and
\* a scan of the patched text finds every scan-time field with its value and
\* exactly the pending names added
PatchHandedOver ==
    /\ pc = "finish"
    /\ Len(replacements') = Len(replacements) + 1
    /\ SubSeq(replacements', 1, Len(replacements)) = replacements
    /\ replacements'[Len(replacements')].span = entry.span
    /\ ~args.force =>
          /\ PendingNames # {}
          /\ FieldsOf(replacements'[Len(replacements')].new_raw) = FieldsWithPatch

\* C12: during the loop the scanned entries, their fields included, never
\* change; without the force option the names of the pending patch are names
\* the entry did not have when scanned; a patch is handed to the applier only
\* when it is not empty, and then adds its fields without touching a field
\* already present; an entry whose lookups all returned nothing adds no patch.
C12_PendingPatch ==
    /\ [][InLoop => entries' = entries]_vars
    /\ []((InLoop /\ ~args.force) => PendingNames \cap DOMAIN entry.fields = {})
    /\ [][replacements' # replacements => PatchHandedOver]_vars
    /\ [][(pc = "finish" /\ LookupsAllFailed) => replacements' = replacements]_vars

C12_Witness ==
    /\ script = "enrich"
    /\ pc = "finish"
    /\ ~args.force
    /\ idx = 2
    /\ Len(replacements) = 1
    /\ DOI \in DOMAIN entry.fields
    /\ loc.to_add = <<<<ALTMETRIC, <<"7">>>>>>

====
